---- MODULE Spec2Model ----
(***************************************************************************)
(* A model of the restapi user service: the user entity, the two user      *)
(* stores (relational and in-memory), the scs session manager as the       *)
(* server uses it, and the HTTP pipeline of internal/app/apiserver         *)
(* (request id, log, CORS, session load-and-save, router, auth gate,       *)
(* handlers).                                                              *)
(***************************************************************************)
EXTENDS Integers, Sequences, FiniteSets, TLC

VARIABLES
    backend,     \* which store.Store the server was built with: "sql" or "mem"
    rows,        \* sqlstore: the users table, a set of rows
    seq,         \* sqlstore: the last value of the id sequence
    users,       \* teststore: the mapping ID -> user
    emailIndex,  \* teststore: the secondary index Email -> ID
    sessions,    \* scs store: token -> [deadline, values]
    minted,      \* number of session tokens generated so far
    now,         \* the clock, in hours
    reqs,        \* exchanges in progress: slot -> the request-scoped state of an
                 \* HTTP request, or a direct call of the repository and its result
    created      \* history: Email -> the plaintext password a successful Create was
                 \* given, and the ID it handed back

vars == <<backend, rows, seq, users, emailIndex, sessions, minted, now, reqs, created>>

----------------------------------------------------------------------------
(* Bounds of the model                                                     *)

MaxTokens == 2      \* session tokens that may be generated
MaxInFlight == 2    \* requests that may be in flight together

----------------------------------------------------------------------------
(* Values                                                                  *)

\* Emails are sequences of lexical parts, passwords sequences of characters.
EmailA == <<"user", "@", "example.org">>
EmailB == <<"other", "@", "example.org">>
EmailBad == <<"invalid">>
Emails == {EmailA, EmailB, EmailBad}

PwNone == <<>>
PwShort == <<"w", "r", "o", "n", "g">>
PwA == <<"p", "a", "s", "s", "w", "o", "r", "d">>
PwNear == <<"p", "a", "s", "s", "w", "o", "r">>
Passwords == {PwNone, PwShort, PwA, PwNear}

Salts == {"s1"}

Backends == {"sql", "mem"}

StatusOK == 200
StatusCreated == 201
StatusNoContent == 204
StatusBadRequest == 400
StatusUnauthorized == 401
StatusNotFound == 404
StatusUnprocessableEntity == 422
StatusInternalServerError == 500

errIncorrectEmailOrPassword == "incorrect Email or Password"
errNotAuthenticated == "not authenticated"
ErrRecordNotFound == "record not found"
ErrValidation == "validation"
ErrDuplicateKey == "duplicate key"
ErrStorage == "storage"
ErrDecode == "decode"
ErrRenew == "renew token"
NoErr == ""

----------------------------------------------------------------------------
(* model.User                                                              *)

MinPasswordLen == 6

NoHash == <<>>

NoUser == [ID |-> 0, Email |-> <<>>, Password |-> PwNone, EncryptedPassword |-> NoHash]

NewUser(email, password) ==
    [ID |-> 0, Email |-> email, Password |-> password, EncryptedPassword |-> NoHash]

\* The email grammar: one "@", with a local part before it and a domain after it.
IsEmail(e) ==
    /\ Len(e) >= 3
    /\ Cardinality({i \in 1..Len(e) : e[i] = "@"}) = 1
    /\ e[1] # "@"
    /\ e[Len(e)] # "@"

Validate(u) ==
    /\ IsEmail(u.Email)
    /\ \/ Len(u.Password) >= MinPasswordLen
       \/ u.EncryptedPassword # NoHash

\* A salted one-way hash: the digest is a function of the salt and the plaintext.
EncryptString(salt, password) == <<"bcrypt", salt>> \o password

BeforeCreate(u, salt) ==
    IF Len(u.Password) > 0
    THEN [u EXCEPT !.EncryptedPassword = EncryptString(salt, u.Password)]
    ELSE u

Sanitize(u) == [u EXCEPT !.Password = PwNone]

ComparePassword(u, candidate) ==
    /\ Len(u.EncryptedPassword) >= 2
    /\ EncryptString(u.EncryptedPassword[2], candidate) = u.EncryptedPassword

----------------------------------------------------------------------------
(* The state the handlers work on, as one value                            *)

World ==
    [backend |-> backend, rows |-> rows, seq |-> seq, users |-> users,
     emailIndex |-> emailIndex, sessions |-> sessions, minted |-> minted, now |-> now]

StoreResult(err, u, w) == [err |-> err, u |-> u, w |-> w]

----------------------------------------------------------------------------
(* sqlstore.UserRepository: a mapper onto the users table                  *)
(* (id generated primary key, email unique, encrypted_password)            *)

RowUser(row) ==
    [ID |-> row.id, Email |-> row.email, Password |-> PwNone,
     EncryptedPassword |-> row.encrypted_password]

\* SqlCreate that does not copy the generated id back into the user.
SqlCreate_NoBackfill(w, u, salt, fault) ==
    IF ~Validate(u) THEN StoreResult(ErrValidation, u, w)
    ELSE LET h == BeforeCreate(u, salt) IN
         IF fault THEN StoreResult(ErrStorage, h, w)
         ELSE IF \E row \in w.rows : row.email = h.Email
         THEN StoreResult(ErrDuplicateKey, h, w)
         ELSE LET id == w.seq + 1
                  row == [id |-> id, email |-> h.Email,
                          encrypted_password |-> h.EncryptedPassword]
              IN StoreResult(NoErr, h, [w EXCEPT !.rows = @ \cup {row}, !.seq = id])

SqlCreate(w, u, salt, fault) ==
    IF ~Validate(u) THEN StoreResult(ErrValidation, u, w)
    ELSE LET h == BeforeCreate(u, salt) IN
         IF fault THEN StoreResult(ErrStorage, h, w)
         ELSE IF \E row \in w.rows : row.email = h.Email
         THEN StoreResult(ErrDuplicateKey, h, w)
         ELSE LET id == w.seq + 1
                  row == [id |-> id, email |-> h.Email,
                          encrypted_password |-> h.EncryptedPassword]
              IN StoreResult(NoErr, [h EXCEPT !.ID = id],
                             [w EXCEPT !.rows = @ \cup {row}, !.seq = id])

\* SqlFind handing back a user that carries the id asked for when no row matches.
SqlFind_Partial(w, id, fault) ==
    IF fault THEN StoreResult(ErrStorage, NoUser, w)
    ELSE IF \E row \in w.rows : row.id = id
    THEN StoreResult(NoErr, RowUser(CHOOSE row \in w.rows : row.id = id), w)
    ELSE StoreResult(ErrRecordNotFound, [NoUser EXCEPT !.ID = id], w)

SqlFind(w, id, fault) ==
    IF fault THEN StoreResult(ErrStorage, NoUser, w)
    ELSE IF \E row \in w.rows : row.id = id
    THEN StoreResult(NoErr, RowUser(CHOOSE row \in w.rows : row.id = id), w)
    ELSE StoreResult(ErrRecordNotFound, NoUser, w)

SqlFindByEmail(w, email, fault) ==
    IF fault THEN StoreResult(ErrStorage, NoUser, w)
    ELSE IF \E row \in w.rows : row.email = email
    THEN StoreResult(NoErr, RowUser(CHOOSE row \in w.rows : row.email = email), w)
    ELSE StoreResult(ErrRecordNotFound, NoUser, w)

----------------------------------------------------------------------------
(* teststore.UserRepository: a map ID -> user and an index Email -> ID     *)

\* MemCreate without the duplicate check: the index entry is overwritten.
MemCreate_NoDuplicateCheck(w, u, salt) ==
    IF ~Validate(u) THEN StoreResult(ErrValidation, u, w)
    ELSE LET h == BeforeCreate(u, salt)
             id == Cardinality(DOMAIN w.users) + 1
             kept == [Sanitize(h) EXCEPT !.ID = id]
         IN StoreResult(NoErr, [h EXCEPT !.ID = id],
                        [w EXCEPT !.users = (id :> kept) @@ @,
                                  !.emailIndex = (h.Email :> id) @@ @])

\* MemCheck without the call of Validate.
MemCheck_NoValidate(w, u, salt) ==
    LET h == BeforeCreate(u, salt) IN
    IF h.Email \in DOMAIN w.emailIndex
    THEN StoreResult(ErrDuplicateKey, h, w)
    ELSE StoreResult(NoErr, h, w)

\* Create's reads and writes of the two maps, in program order. Nothing guards
\* the maps (spec.md 9), so calls made by concurrent requests interleave at these
\* points.
\* validate, hash, and look the email up in the index
MemCheck(w, u, salt) ==
    IF ~Validate(u) THEN StoreResult(ErrValidation, u, w)
    ELSE LET h == BeforeCreate(u, salt) IN
         IF h.Email \in DOMAIN w.emailIndex
         THEN StoreResult(ErrDuplicateKey, h, w)
         ELSE StoreResult(NoErr, h, w)

\* the next sequential ID
MemNextID(w, h) == [h EXCEPT !.ID = Cardinality(DOMAIN w.users) + 1]

\* the insertion into the map and the index
MemInsert(w, h) ==
    StoreResult(NoErr, h,
                [w EXCEPT !.users = [i \in DOMAIN @ \cup {h.ID} |->
                                        IF i = h.ID THEN Sanitize(h) ELSE @[i]],
                          !.emailIndex = [e \in DOMAIN @ \cup {h.Email} |->
                                             IF e = h.Email THEN h.ID ELSE @[e]]])

MemCreate(w, u, salt) ==
    LET c == MemCheck(w, u, salt)
    IN IF c.err # NoErr THEN c ELSE MemInsert(w, MemNextID(w, c.u))

MemFind(w, id) ==
    IF id \in DOMAIN w.users
    THEN StoreResult(NoErr, w.users[id], w)
    ELSE StoreResult(ErrRecordNotFound, NoUser, w)

MemFindByEmail(w, email) ==
    IF email \in DOMAIN w.emailIndex /\ w.emailIndex[email] \in DOMAIN w.users
    THEN StoreResult(NoErr, w.users[w.emailIndex[email]], w)
    ELSE StoreResult(ErrRecordNotFound, NoUser, w)

----------------------------------------------------------------------------
(* store.UserRepository, as the server calls it                            *)

Create(w, u, salt, fault) ==
    IF w.backend = "sql" THEN SqlCreate(w, u, salt, fault) ELSE MemCreate(w, u, salt)

Find(w, id, fault) ==
    IF w.backend = "sql" THEN SqlFind(w, id, fault) ELSE MemFind(w, id)

FindByEmail(w, email, fault) ==
    IF w.backend = "sql" THEN SqlFindByEmail(w, email, fault) ELSE MemFindByEmail(w, email)

\* The users a store holds, whichever backend it is.
StoredUsers(w) ==
    IF w.backend = "sql" THEN {RowUser(row) : row \in w.rows}
    ELSE {w.users[id] : id \in DOMAIN w.users}

----------------------------------------------------------------------------
(* scs.SessionManager over its in-memory store, as configured by           *)
(* configureSessionManager                                                 *)

Lifetime == 24

NoToken == <<>>
Token(k) == <<"tok", k>>
\* A cookie value the server never generated.
ForgedToken == Token(0)

EmptyValues == [k \in {} |-> 0]

PutValue(values, key, val) ==
    [k \in DOMAIN values \cup {key} |-> IF k = key THEN val ELSE values[k]]

NewSessionData(w) ==
    [token |-> NoToken, values |-> EmptyValues, deadline |-> w.now + Lifetime,
     status |-> "Unmodified"]

\* memstore.Find: an entry past its expiry is not found.
SessionFound(w, token) ==
    /\ token \in DOMAIN w.sessions
    /\ w.sessions[token].deadline >= w.now

\* Load that does not look the session up by the token presented: any cookie
\* gets a stored session.
Load_IgnoresToken(w, token) ==
    IF token = NoToken \/ DOMAIN w.sessions = {} THEN NewSessionData(w)
    ELSE LET t == CHOOSE t \in DOMAIN w.sessions : TRUE
         IN [token |-> t, values |-> w.sessions[t].values,
             deadline |-> w.sessions[t].deadline, status |-> "Unmodified"]

Load(w, token) ==
    IF token = NoToken THEN NewSessionData(w)
    ELSE IF SessionFound(w, token)
    THEN [token |-> token, values |-> w.sessions[token].values,
          deadline |-> w.sessions[token].deadline, status |-> "Unmodified"]
    ELSE NewSessionData(w)

GetInt(sd, key) == IF key \in DOMAIN sd.values THEN sd.values[key] ELSE 0

Put(sd, key, val) ==
    [sd EXCEPT !.values = PutValue(@, key, val), !.status = "Modified"]

DeleteSession(w, token) ==
    [w EXCEPT !.sessions = [t \in DOMAIN @ \ {token} |-> @[t]]]

\* RenewToken that does not restart the session's lifetime.
RenewToken_KeepsDeadline(w, sd, fault) ==
    IF sd.token # NoToken /\ fault = "delete"
    THEN [err |-> ErrRenew, sd |-> sd, w |-> w]
    ELSE LET w1 == IF sd.token # NoToken THEN DeleteSession(w, sd.token) ELSE w IN
         IF fault = "generate"
         THEN [err |-> ErrRenew, sd |-> sd, w |-> w1]
         ELSE [err |-> NoErr,
               sd |-> [sd EXCEPT !.token = Token(w1.minted + 1), !.status = "Modified"],
               w |-> [w1 EXCEPT !.minted = @ + 1]]

\* fault: "none", "delete" (the store's Delete fails) or "generate" (no token
\* could be generated).
RenewToken(w, sd, fault) ==
    IF sd.token # NoToken /\ fault = "delete"
    THEN [err |-> ErrRenew, sd |-> sd, w |-> w]
    ELSE LET w1 == IF sd.token # NoToken THEN DeleteSession(w, sd.token) ELSE w IN
         IF fault = "generate"
         THEN [err |-> ErrRenew, sd |-> sd, w |-> w1]
         ELSE [err |-> NoErr,
               sd |-> [sd EXCEPT !.token = Token(w1.minted + 1),
                                 !.deadline = w1.now + Lifetime,
                                 !.status = "Modified"],
               w |-> [w1 EXCEPT !.minted = @ + 1]]

Commit(w, sd) ==
    LET fresh == sd.token = NoToken
        token == IF fresh THEN Token(w.minted + 1) ELSE sd.token
        entry == [deadline |-> sd.deadline, values |-> sd.values]
    IN [token |-> token,
        w |-> [w EXCEPT !.sessions = (token :> entry) @@ @,
                        !.minted = IF fresh THEN @ + 1 ELSE @]]

----------------------------------------------------------------------------
(* Requests and responses                                                  *)

Methods == {"GET", "POST", "OPTIONS"}

\* A path is its sequence of segments: /private/whoami is <<"private", "whoami">>.
PathUsers == <<"users">>
PathSession == <<"session">>
PathSessions == <<"sessions">>
PathMe == <<"me">>
PathWhoami == <<"private", "whoami">>
PathPrivateOther == <<"private", "other">>
Paths == {PathUsers, PathSession, PathSessions, PathMe, PathWhoami, PathPrivateOther}

\* A body: JSON that decodes into {email, password}, or something that does not.
NoBody == [ok |-> FALSE, email |-> <<>>, password |-> PwNone]
JsonBody(email, password) == [ok |-> TRUE, email |-> email, password |-> password]
Bodies == {NoBody} \cup {JsonBody(e, p) : e \in Emails, p \in Passwords}

\* encoding/json of a model.User: id, email, and the password when it is not empty.
JSON(u) == [id |-> u.ID, email |-> u.Email, password |-> u.Password]

NoData == [kind |-> "none", error |-> "", user |-> JSON(NoUser)]
ErrorData(msg) == [kind |-> "error", error |-> msg, user |-> JSON(NoUser)]
UserData(u) == [kind |-> "user", error |-> "", user |-> JSON(u)]
TextData(msg) == [kind |-> "text", error |-> msg, user |-> JSON(NoUser)]

CorsHeaders ==
    {"Access-Control-Allow-Origin", "Access-Control-Allow-Methods",
     "Access-Control-Allow-Headers"}

\* The request-scoped state of one request: its inputs, the choices its
\* environment makes for it (salt, faults), and what the pipeline has done so far.
NewRequest(w, method, path, cookie, body, salt, storeFault, renewFault) ==
    [kind |-> "http", method |-> method, path |-> path, cookie |-> cookie,
     body |-> body, id |-> 0, err |-> NoErr, salt |-> salt, storeFault |-> storeFault, renewFault |-> renewFault,
     pc |-> "recv",
     sd |-> NewSessionData(w), loaded |-> NoToken,
     written |-> FALSE, wh |-> <<>>, out |-> <<>>, setCookie |-> NoToken,
     headers |-> {}, u |-> NoUser, entered |-> FALSE, calls |-> <<>>]

\* A call of the repository as a request remembers it: the operation, the error it
\* returned and the ID of the user it returned.
Called(op, res) == [op |-> op, err |-> res.err, id |-> res.u.ID]

Idle == [pc |-> "idle"]

\* The status the client sees: the first WriteHeader wins.
Code(r) == IF Len(r.wh) > 0 THEN r.wh[1] ELSE StatusOK

Out(w, r) == [w |-> w, r |-> r]

----------------------------------------------------------------------------
(* LoadAndSave's response writer, and server.respond / server.error        *)

commitAndWriteSessionCookie(w, r) ==
    IF r.sd.status = "Modified"
    THEN LET c == Commit(w, r.sd)
         IN Out(c.w, [r EXCEPT !.sd.token = c.token, !.setCookie = c.token,
                               !.headers = @ \cup {"Set-Cookie"}])
    ELSE Out(w, r)

\* sessionResponseWriter.WriteHeader: the session is committed before the first
\* header goes out.
WriteHeader(w, r, code) ==
    LET c == IF r.written THEN Out(w, r) ELSE commitAndWriteSessionCookie(w, r)
    IN Out(c.w, [c.r EXCEPT !.written = TRUE, !.wh = Append(@, code)])

respond(w, r, code, data) ==
    LET h == WriteHeader(w, r, code)
    IN Out(h.w, [h.r EXCEPT !.out = IF data.kind # "none" THEN Append(@, data) ELSE @])

error(w, r, code, msg) == respond(w, r, code, ErrorData(msg))

\* The handler returns: the request is finished.
Return(x) == Out(x.w, [x.r EXCEPT !.pc = "done"])

Goto(x, pc) == Out(x.w, [x.r EXCEPT !.pc = pc])

----------------------------------------------------------------------------
(* Handlers                                                                *)

\* The handler's call s.store.User().Create(u), step by step: one step over the
\* persistent store, whose insert is one statement of the database; over the
\* in-memory store, its reads and writes of the maps. The outcome is left in
\* r.err and r.u.
CreateCall(w, r) ==
    LET back(c) == Out(c.w, [r EXCEPT !.err = c.err, !.u = c.u,
                                      !.calls = Append(@, Called("Create", c)),
                                      !.pc = "users:created"])
    IN IF r.pc = "create"
       THEN IF w.backend = "sql" THEN back(SqlCreate(w, r.u, r.salt, r.storeFault))
            ELSE LET c == MemCheck(w, r.u, r.salt)
                 IN IF c.err # NoErr THEN back(c)
                    ELSE Out(w, [r EXCEPT !.u = c.u, !.pc = "create:id"])
       ELSE IF r.pc = "create:id"
       THEN Out(w, [r EXCEPT !.u = MemNextID(w, @), !.pc = "create:insert"])
       ELSE back(MemInsert(w, r.u))

\* handleUsersCreate without the check of the decode error.
handleUsersCreate_NoDecodeCheck(w, r) ==
    IF r.pc = "users"
    THEN Out(w, [r EXCEPT !.u = NewUser(r.body.email, r.body.password), !.pc = "create"])
    ELSE IF r.err # NoErr
    THEN Return(error(w, r, StatusUnprocessableEntity, r.err))
    ELSE LET u == Sanitize(r.u)
         IN Return(respond(w, [r EXCEPT !.u = u], StatusCreated, UserData(u)))

\* handleUsersCreate without Sanitize.
handleUsersCreate_NoSanitize(w, r) ==
    IF r.pc = "users"
    THEN IF ~r.body.ok THEN Return(error(w, r, StatusBadRequest, ErrDecode))
         ELSE Out(w, [r EXCEPT !.u = NewUser(r.body.email, r.body.password),
                               !.pc = "create"])
    ELSE IF r.err # NoErr
    THEN Return(error(w, r, StatusUnprocessableEntity, r.err))
    ELSE Return(respond(w, r, StatusCreated, UserData(r.u)))

\* Up to the call of Create (pc "users"), and from its return (pc "users:created").
handleUsersCreate(w, r) ==
    IF r.pc = "users"
    THEN IF ~r.body.ok THEN Return(error(w, r, StatusBadRequest, ErrDecode))
         ELSE Out(w, [r EXCEPT !.u = NewUser(r.body.email, r.body.password),
                               !.pc = "create"])
    ELSE IF r.err # NoErr
    THEN Return(error(w, r, StatusUnprocessableEntity, r.err))
    ELSE LET u == Sanitize(r.u)
         IN Return(respond(w, [r EXCEPT !.u = u], StatusCreated, UserData(u)))

\* handleSessionCreate without the Put of user_id.
handleSessionCreate_NoPut(w, r) ==
    IF r.pc = "session"
    THEN IF ~r.body.ok THEN Return(error(w, r, StatusBadRequest, ErrDecode))
         ELSE LET f == FindByEmail(w, r.body.email, r.storeFault)
                  r1 == [r EXCEPT !.calls = Append(@, Called("FindByEmail", f))]
              IN IF f.err # NoErr \/ ~ComparePassword(f.u, r.body.password)
                 THEN Return(error(w, r1, StatusUnauthorized, errIncorrectEmailOrPassword))
                 ELSE Out(w, [r1 EXCEPT !.u = f.u, !.pc = "session:renew"])
    ELSE IF r.pc = "session:renew"
    THEN LET n == RenewToken(w, r.sd, r.renewFault)
             r1 == [r EXCEPT !.sd = n.sd]
         IN IF n.err # NoErr
            THEN Goto(error(n.w, r1, StatusInternalServerError, n.err), "session:put")
            ELSE Out(n.w, [r1 EXCEPT !.pc = "session:put"])
    ELSE Return(respond(w, r, StatusOK, NoData))

\* handleSessionCreate without the password comparison.
handleSessionCreate_NoCompare(w, r) ==
    IF r.pc = "session"
    THEN IF ~r.body.ok THEN Return(error(w, r, StatusBadRequest, ErrDecode))
         ELSE LET f == FindByEmail(w, r.body.email, r.storeFault)
                  r1 == [r EXCEPT !.calls = Append(@, Called("FindByEmail", f))]
              IN IF f.err # NoErr
                 THEN Return(error(w, r1, StatusUnauthorized, errIncorrectEmailOrPassword))
                 ELSE Out(w, [r1 EXCEPT !.u = f.u, !.pc = "session:renew"])
    ELSE IF r.pc = "session:renew"
    THEN LET n == RenewToken(w, r.sd, r.renewFault)
             r1 == [r EXCEPT !.sd = n.sd]
         IN IF n.err # NoErr
            THEN Goto(error(n.w, r1, StatusInternalServerError, n.err), "session:put")
            ELSE Out(n.w, [r1 EXCEPT !.pc = "session:put"])
    ELSE LET r1 == [r EXCEPT !.sd = Put(@, "user_id", r.u.ID)]
         IN Return(respond(w, r1, StatusOK, NoData))

\* handleSessionCreate echoing the lookup's own error on a miss.
handleSessionCreate_EchoesLookup(w, r) ==
    IF r.pc = "session"
    THEN IF ~r.body.ok THEN Return(error(w, r, StatusBadRequest, ErrDecode))
         ELSE LET f == FindByEmail(w, r.body.email, r.storeFault)
                  r1 == [r EXCEPT !.calls = Append(@, Called("FindByEmail", f))]
              IN IF f.err # NoErr
                 THEN Return(error(w, r1, StatusUnauthorized, f.err))
                 ELSE IF ~ComparePassword(f.u, r.body.password)
                 THEN Return(error(w, r1, StatusUnauthorized, errIncorrectEmailOrPassword))
                 ELSE Out(w, [r1 EXCEPT !.u = f.u, !.pc = "session:renew"])
    ELSE IF r.pc = "session:renew"
    THEN LET n == RenewToken(w, r.sd, r.renewFault)
             r1 == [r EXCEPT !.sd = n.sd]
         IN IF n.err # NoErr
            THEN Goto(error(n.w, r1, StatusInternalServerError, n.err), "session:put")
            ELSE Out(n.w, [r1 EXCEPT !.pc = "session:put"])
    ELSE LET r1 == [r EXCEPT !.sd = Put(@, "user_id", r.u.ID)]
         IN Return(respond(w, r1, StatusOK, NoData))

\* Three steps: decode, look up and compare; renew the token; store user_id
\* and respond.
\* handleSessionCreate that renews the token before it checks the credentials.
handleSessionCreate_RenewsFirst(w, r) ==
    IF r.pc = "session"
    THEN IF ~r.body.ok THEN Return(error(w, r, StatusBadRequest, ErrDecode))
         ELSE LET n == RenewToken(w, r.sd, r.renewFault)
                  f == FindByEmail(n.w, r.body.email, r.storeFault)
                  r1 == [r EXCEPT !.sd = n.sd, !.calls = Append(@, Called("FindByEmail", f))]
              IN IF f.err # NoErr \/ ~ComparePassword(f.u, r.body.password)
                 THEN Return(error(n.w, r1, StatusUnauthorized, errIncorrectEmailOrPassword))
                 ELSE Out(n.w, [r1 EXCEPT !.u = f.u, !.pc = "session:put"])
    ELSE LET r1 == [r EXCEPT !.sd = Put(@, "user_id", r.u.ID)]
         IN Return(respond(w, r1, StatusOK, NoData))

\* handleSessionCreate that stores the ID of the user value it built from the
\* request (never given an ID) instead of the ID of the user FindByEmail returned.
handleSessionCreate_PutsRequestUser(w, r) ==
    IF r.pc = "session"
    THEN IF ~r.body.ok THEN Return(error(w, r, StatusBadRequest, ErrDecode))
         ELSE LET f == FindByEmail(w, r.body.email, r.storeFault)
                  r1 == [r EXCEPT !.calls = Append(@, Called("FindByEmail", f))]
              IN IF f.err # NoErr \/ ~ComparePassword(f.u, r.body.password)
                 THEN Return(error(w, r1, StatusUnauthorized, errIncorrectEmailOrPassword))
                 ELSE Out(w, [r1 EXCEPT !.pc = "session:renew"])
    ELSE IF r.pc = "session:renew"
    THEN LET n == RenewToken(w, r.sd, r.renewFault)
             r1 == [r EXCEPT !.sd = n.sd]
         IN IF n.err # NoErr
            THEN Goto(error(n.w, r1, StatusInternalServerError, n.err), "session:put")
            ELSE Out(n.w, [r1 EXCEPT !.pc = "session:put"])
    ELSE LET r1 == [r EXCEPT !.sd = Put(@, "user_id", r.u.ID)]
         IN Return(respond(w, r1, StatusOK, NoData))

handleSessionCreate(w, r) ==
    IF r.pc = "session"
    THEN IF ~r.body.ok THEN Return(error(w, r, StatusBadRequest, ErrDecode))
         ELSE LET f == FindByEmail(w, r.body.email, r.storeFault)
                  r1 == [r EXCEPT !.calls = Append(@, Called("FindByEmail", f))]
              IN IF f.err # NoErr \/ ~ComparePassword(f.u, r.body.password)
                 THEN Return(error(w, r1, StatusUnauthorized, errIncorrectEmailOrPassword))
                 ELSE Out(w, [r1 EXCEPT !.u = f.u, !.pc = "session:renew"])
    ELSE IF r.pc = "session:renew"
    THEN LET n == RenewToken(w, r.sd, r.renewFault)
             r1 == [r EXCEPT !.sd = n.sd]
         IN IF n.err # NoErr
            THEN Goto(error(n.w, r1, StatusInternalServerError, n.err), "session:put")
            ELSE Out(n.w, [r1 EXCEPT !.pc = "session:put"])
    ELSE LET r1 == [r EXCEPT !.sd = Put(@, "user_id", r.u.ID)]
         IN Return(respond(w, r1, StatusOK, NoData))

handleWoami(w, r) == respond(w, r, StatusOK, UserData(r.u))

NotFound(w, r) == respond(w, r, StatusNotFound, TextData("404 page not found"))

\* The private mux, behind StripPrefix("/private").
private(w, r) ==
    IF Tail(r.path) = <<"whoami">> THEN handleWoami(w, r) ELSE NotFound(w, r)

\* authenticateUser without the check of Find's error.
authenticateUser_IgnoresFindError(w, r) ==
    LET id == GetInt(r.sd, "user_id") IN
    IF id = 0 THEN Return(error(w, r, StatusUnauthorized, errNotAuthenticated))
    ELSE LET f == Find(w, id, r.storeFault)
             r1 == [r EXCEPT !.calls = Append(@, Called("Find", f))]
         IN Return(private(w, [r1 EXCEPT !.u = f.u, !.entered = TRUE]))

authenticateUser(w, r) ==
    LET id == GetInt(r.sd, "user_id") IN
    IF id = 0 THEN Return(error(w, r, StatusUnauthorized, errNotAuthenticated))
    ELSE LET f == Find(w, id, r.storeFault)
             r1 == [r EXCEPT !.calls = Append(@, Called("Find", f))]
         IN IF f.err # NoErr
            THEN Return(error(w, r1, StatusUnauthorized, errNotAuthenticated))
            ELSE Return(private(w, [r1 EXCEPT !.u = f.u, !.entered = TRUE]))

----------------------------------------------------------------------------
(* The pipeline: setRequestID, logRequest, cors, LoadAndSave, router       *)

router(w, r) ==
    IF r.path = PathUsers THEN Out(w, [r EXCEPT !.pc = "users"])
    ELSE IF r.path = PathSession THEN Out(w, [r EXCEPT !.pc = "session"])
    ELSE IF Len(r.path) >= 1 /\ Head(r.path) = "private"
    THEN Out(w, [r EXCEPT !.pc = "private"])
    ELSE Return(NotFound(w, r))

LoadAndSave(w, r) ==
    LET sd == Load(w, r.cookie)
    IN router(w, [r EXCEPT !.sd = sd, !.loaded = sd.token, !.headers = @ \cup {"Vary"}])

\* cors without the branch for OPTIONS.
cors_NoOptions(w, r) ==
    LoadAndSave(w, [r EXCEPT !.headers = @ \cup CorsHeaders])

cors(w, r) ==
    LET r1 == [r EXCEPT !.headers = @ \cup CorsHeaders] IN
    IF r.method = "OPTIONS"
    THEN Out(w, [r1 EXCEPT !.wh = Append(@, StatusNoContent), !.pc = "done"])
    ELSE LoadAndSave(w, r1)

ServeHTTP(w, r) == cors(w, [r EXCEPT !.headers = @ \cup {"X-Request-ID"}])

\* A direct call of the repository, as the tests make them: r.kind names the
\* method, r.body and r.id hold its arguments.
Repository(w, r) ==
    LET res == IF r.kind = "Create"
               THEN Create(w, NewUser(r.body.email, r.body.password), r.salt, r.storeFault)
               ELSE IF r.kind = "Find" THEN Find(w, r.id, r.storeFault)
               ELSE FindByEmail(w, r.body.email, r.storeFault)
    IN Out(res.w, [r EXCEPT !.err = res.err, !.u = res.u,
                            !.calls = Append(@, Called(r.kind, res)), !.pc = "done"])

\* One step of a request: everything up to and including its next access to
\* the user store or the session store.
Step(w, r) ==
    IF r.pc = "call" THEN Repository(w, r)
    ELSE IF r.pc = "recv" THEN ServeHTTP(w, r)
    ELSE IF r.pc \in {"users", "users:created"} THEN handleUsersCreate(w, r)
    ELSE IF r.pc \in {"create", "create:id", "create:insert"} THEN CreateCall(w, r)
    ELSE IF r.pc \in {"session", "session:renew", "session:put"}
    THEN handleSessionCreate(w, r)
    ELSE authenticateUser(w, r)

\* A request served from start to finish with nothing in between.
RECURSIVE Run(_, _)
Run(w, r) ==
    IF r.pc = "done" THEN Out(w, r)
    ELSE LET x == Step(w, r) IN Run(x.w, x.r)

----------------------------------------------------------------------------
(* State                                                                   *)

Slots == 1..MaxInFlight

\* The cookies a client can present: none, a made-up one, or any token the
\* server has ever handed out.
Cookies(w) == {NoToken, ForgedToken} \cup {Token(k) : k \in 1..w.minted}

IDs == 0..Cardinality(Emails)

HttpRequest(method, path, cookie, body, salt, storeFault, renewFault) ==
    NewRequest(World, method, path, cookie, body, salt, storeFault, renewFault)

RepositoryCall(kind, email, password, id, salt) ==
    [NewRequest(World, "", <<>>, NoToken, JsonBody(email, password), salt, FALSE, "none")
        EXCEPT !.kind = kind, !.id = id, !.pc = "call"]

Install(w) ==
    /\ rows' = w.rows
    /\ seq' = w.seq
    /\ users' = w.users
    /\ emailIndex' = w.emailIndex
    /\ sessions' = w.sessions
    /\ minted' = w.minted

\* The history of successful Creates, after exchange r (before the step: r0) has
\* made a call: per email, the password and the ID of the latest one, and whether
\* it was a direct call of the repository or one made by POST /users.
Remember(r0, r) ==
    IF /\ Len(r.calls) > Len(r0.calls)
       /\ r.calls[Len(r.calls)].op = "Create"
       /\ r.calls[Len(r.calls)].err = NoErr
    THEN (r.body.email :> [password |-> r.body.password, ID |-> r.calls[Len(r.calls)].id,
                           direct |-> r.kind = "Create"])
             @@ created
    ELSE created

Init ==
    /\ backend \in Backends
    /\ rows = {}
    /\ seq = 0
    /\ users = <<>>
    /\ emailIndex = <<>>
    /\ sessions = <<>>
    /\ minted = 0
    /\ now = 0
    /\ reqs = [s \in Slots |-> Idle]
    /\ created = <<>>

AllIdle == \A s \in Slots : reqs[s].pc = "idle"

InFlight(s) == reqs[s].pc \notin {"idle", "done"}

\* Logins not yet finished: each may still generate a token.
PendingLogins == {s \in Slots : InFlight(s) /\ reqs[s].path = PathSession}

\* Exchange r begins in slot s.
Arrive(s, r) ==
    /\ reqs[s].pc = "idle"
    /\ r.path = PathSession => minted + Cardinality(PendingLogins) < MaxTokens
    /\ reqs' = [reqs EXCEPT ![s] = r]
    /\ UNCHANGED <<backend, rows, seq, users, emailIndex, sessions, minted, now, created>>

----------------------------------------------------------------------------
(* Requests served one at a time: a request arrives when nothing else is   *)
(* in progress, is served from start to finish in one step, and its        *)
(* response is delivered before the next one arrives                       *)

\* The mux patterns name no method: the requests below use the method a client
\* of the route uses.
PostUsers ==
    \E cookie \in Cookies(World), body \in Bodies, salt \in Salts :
        AllIdle /\ Arrive(1, HttpRequest("POST", PathUsers, cookie, body, salt, FALSE, "none"))

PostSession ==
    \E cookie \in Cookies(World), body \in Bodies :
        AllIdle /\ Arrive(1, HttpRequest("POST", PathSession, cookie, body, "", FALSE, "none"))

GetPrivate ==
    \E cookie \in Cookies(World), path \in {PathWhoami, PathPrivateOther} :
        AllIdle /\ Arrive(1, HttpRequest("GET", path, cookie, NoBody, "", FALSE, "none"))

PostSessions ==
    \E cookie \in Cookies(World), body \in Bodies :
        AllIdle /\ Arrive(1, HttpRequest("POST", PathSessions, cookie, body, "", FALSE, "none"))

GetMe ==
    \E cookie \in Cookies(World) :
        AllIdle /\ Arrive(1, HttpRequest("GET", PathMe, cookie, NoBody, "", FALSE, "none"))

Options ==
    \E cookie \in Cookies(World), path \in Paths, body \in {NoBody, JsonBody(EmailA, PwA)},
       salt \in Salts :
        AllIdle /\ Arrive(1, HttpRequest("OPTIONS", path, cookie, body, salt, FALSE, "none"))

CreateUser ==
    \E email \in Emails, password \in Passwords, salt \in Salts :
        AllIdle /\ Arrive(1, RepositoryCall("Create", email, password, 0, salt))

FindUser ==
    \E id \in IDs : AllIdle /\ Arrive(1, RepositoryCall("Find", <<>>, PwNone, id, ""))

FindUserByEmail ==
    \E email \in Emails :
        AllIdle /\ Arrive(1, RepositoryCall("FindByEmail", email, PwNone, 0, ""))

\* The exchange in slot s is carried out from start to finish.
Handle ==
    \E s \in Slots :
        /\ InFlight(s)
        /\ LET x == Run(World, reqs[s])
           IN /\ Install(x.w)
              /\ reqs' = [reqs EXCEPT ![s] = x.r]
              /\ created' = Remember(reqs[s], x.r)
        /\ UNCHANGED <<backend, now>>

\* The response has been written and ServeHTTP (or the repository call) returns.
Complete ==
    \E s \in Slots :
        /\ reqs[s].pc = "done"
        /\ reqs' = [reqs EXCEPT ![s] = Idle]
        /\ UNCHANGED <<backend, rows, seq, users, emailIndex, sessions, minted, now, created>>

Next ==
    \/ PostUsers
    \/ PostSession
    \/ GetPrivate
    \/ PostSessions
    \/ GetMe
    \/ Options
    \/ CreateUser
    \/ FindUser
    \/ FindUserByEmail
    \/ Handle
    \/ Complete

Spec == Init /\ [][Next]_vars

----------------------------------------------------------------------------
(* The same, with an environment that may fail: a store call of the        *)
(* relational backend may return a backend error, and RenewToken may fail  *)

\* The requests a fault is tried on: well-formed ones, which get as far as the call
\* that fails.
FaultBodies == {JsonBody(e, PwA) : e \in {EmailA, EmailB}}

PostUsersFault ==
    \E cookie \in Cookies(World), body \in FaultBodies, salt \in Salts :
        AllIdle /\ Arrive(1, HttpRequest("POST", PathUsers, cookie, body, salt, TRUE, "none"))

PostSessionFault ==
    \E cookie \in Cookies(World), body \in FaultBodies,
       storeFault \in BOOLEAN, renewFault \in {"none", "delete", "generate"} :
        /\ storeFault \/ renewFault # "none"
        /\ AllIdle
        /\ Arrive(1, HttpRequest("POST", PathSession, cookie, body, "", storeFault,
                                 renewFault))

GetPrivateFault ==
    \E cookie \in Cookies(World), path \in {PathWhoami, PathPrivateOther} :
        AllIdle /\ Arrive(1, HttpRequest("GET", path, cookie, NoBody, "", TRUE, "none"))

NextFault ==
    \/ Next
    \/ PostUsersFault
    \/ PostSessionFault
    \/ GetPrivateFault

SpecFault == Init /\ [][NextFault]_vars

----------------------------------------------------------------------------
(* Requests served concurrently, one goroutine each: a request may arrive  *)
(* while others are in progress, and the steps of the requests in          *)
(* progress interleave. A step is everything a request does up to and      *)
(* including its next access to the user store or the session store.       *)

ConcBodies == {JsonBody(EmailA, PwA)}

\* Tokens a request in progress has generated and no response has carried yet.
Unsent == {reqs[s].sd.token : s \in {i \in Slots : InFlight(i) /\ reqs[i].kind = "http"}}
              \ DOMAIN sessions

\* The cookies a client can present: those a response has set, or made up.
Issued == Cookies(World) \ (Unsent \ {NoToken})

ConcPostUsers ==
    \E s \in Slots, body \in ConcBodies, salt \in Salts :
        Arrive(s, HttpRequest("POST", PathUsers, NoToken, body, salt, FALSE, "none"))

ConcPostSession ==
    \E s \in Slots, cookie \in Issued, body \in ConcBodies :
        Arrive(s, HttpRequest("POST", PathSession, cookie, body, "", FALSE, "none"))

ConcGetPrivate ==
    \E s \in Slots, cookie \in Issued :
        Arrive(s, HttpRequest("GET", PathWhoami, cookie, NoBody, "", FALSE, "none"))

\* The request in slot s takes its next step.
StepRequest ==
    \E s \in Slots :
        /\ InFlight(s)
        /\ LET x == Step(World, reqs[s])
           IN /\ Install(x.w)
              /\ reqs' = [reqs EXCEPT ![s] = x.r]
              /\ created' = Remember(reqs[s], x.r)
        /\ UNCHANGED <<backend, now>>

NextConc ==
    \/ ConcPostUsers
    \/ ConcPostSession
    \/ ConcGetPrivate
    \/ StepRequest
    \/ Complete

SpecConc == Init /\ [][NextConc]_vars

----------------------------------------------------------------------------
(* The two stores side by side: every repository call is made on the       *)
(* persistent store and on the in-memory store, and both outcomes are kept *)

\* How far the users table's sequence may have advanced before the table was
\* emptied: TestDB's teardown truncates the tables, which does not reset it.
MaxSeqStart == 1

Sql(w) == [w EXCEPT !.backend = "sql"]
Mem(w) == [w EXCEPT !.backend = "mem"]

\* The ID a store has given the user with this email; 0 when it holds none.
IDOf(w, email) == FindByEmail(w, email, FALSE).u.ID

\* The call as one store is asked it: "FindOf" is Find of the ID that this store
\* has given the user with the email.
Ask(w, r) ==
    IF r.kind = "FindOf" THEN [r EXCEPT !.kind = "Find", !.id = IDOf(w, r.body.email)]
    ELSE r

InitBoth ==
    /\ backend \in Backends
    /\ rows = {}
    /\ seq \in 0..MaxSeqStart
    /\ users = <<>>
    /\ emailIndex = <<>>
    /\ sessions = <<>>
    /\ minted = 0
    /\ now = 0
    /\ reqs = [s \in Slots |-> Idle]
    /\ created = <<>>

BothCreate ==
    \E email \in Emails, password \in Passwords, salt \in Salts :
        AllIdle /\ Arrive(1, RepositoryCall("Create", email, password, 0, salt))

BothFindByEmail ==
    \E email \in Emails :
        AllIdle /\ Arrive(1, RepositoryCall("FindByEmail", email, PwNone, 0, ""))

\* Find of the same number in both stores
BothFind ==
    \E id \in IDs : AllIdle /\ Arrive(1, RepositoryCall("Find", <<>>, PwNone, id, ""))

\* Find of the same user in both stores, by the ID each store gave it
BothFindOf ==
    \E email \in Emails :
        AllIdle /\ Arrive(1, RepositoryCall("FindOf", email, PwNone, 0, ""))

HandleBoth ==
    \E s \in Slots :
        /\ InFlight(s)
        /\ LET r == reqs[s]
               a == Repository(Sql(World), Ask(Sql(World), r))
               b == Repository(Mem(World), Ask(Mem(World), r))
           IN /\ rows' = a.w.rows
              /\ seq' = a.w.seq
              /\ users' = b.w.users
              /\ emailIndex' = b.w.emailIndex
              /\ reqs' = [reqs EXCEPT ![s] =
                             [pc |-> "done", kind |-> r.kind, sql |-> a.r, mem |-> b.r]]
              /\ created' = Remember(r, a.r)
        /\ UNCHANGED <<backend, sessions, minted, now>>

NextBoth ==
    \/ BothCreate
    \/ BothFindByEmail
    \/ BothFind
    \/ BothFindOf
    \/ HandleBoth
    \/ Complete

SpecBoth == InitBoth /\ [][NextBoth]_vars

----------------------------------------------------------------------------
(* The server over time: between requests the clock advances. Time is      *)
(* counted in hours                                                        *)

MaxNow == 26

\* The clock's advances: half a lifetime, or an hour more than that, so that a
\* session is presented at exactly its lifetime and an hour past it.
Ticks == {Lifetime \div 2, Lifetime \div 2 + 1}

Tick ==
    \E d \in Ticks :
        /\ AllIdle
        /\ now + d <= MaxNow
        /\ now' = now + d
        /\ UNCHANGED <<backend, rows, seq, users, emailIndex, sessions, minted, reqs,
                       created>>

TimedPostUsers ==
    \E body \in ConcBodies, salt \in Salts :
        AllIdle /\ Arrive(1, HttpRequest("POST", PathUsers, NoToken, body, salt, FALSE, "none"))

TimedPostSession ==
    \E cookie \in Cookies(World), body \in ConcBodies :
        AllIdle /\ Arrive(1, HttpRequest("POST", PathSession, cookie, body, "", FALSE, "none"))

TimedGetPrivate ==
    \E cookie \in Cookies(World) :
        AllIdle /\ Arrive(1, HttpRequest("GET", PathWhoami, cookie, NoBody, "", FALSE, "none"))

NextTimed ==
    \/ Tick
    \/ TimedPostUsers
    \/ TimedPostSession
    \/ TimedGetPrivate
    \/ Handle
    \/ Complete

SpecTimed == Init /\ [][NextTimed]_vars

----------------------------------------------------------------------------
(* Properties                                                              *)

\* Slot s holds a finished HTTP exchange.
Http(s) == reqs[s].pc = "done" /\ reqs[s].kind = "http"

\* The router dispatched r to the handler registered for path.
Routed(r, path) == r.method # "OPTIONS" /\ r.path = path

\* The router dispatched r to the /private/ subtree, behind the auth gate.
Protected(r) == r.method # "OPTIONS" /\ Len(r.path) >= 1 /\ Head(r.path) = "private"

Unauthorized(r, msg) == Code(r) = StatusUnauthorized /\ r.out = <<ErrorData(msg)>>

\* The request a client sends to read /private/whoami with a cookie.
Whoami(cookie) ==
    NewRequest(World, "GET", PathWhoami, cookie, NoBody, "", FALSE, "none")

\* The credentials of r are those a user was created with.
GoodCredentials(r) ==
    /\ r.body.ok
    /\ r.body.email \in DOMAIN created
    /\ created[r.body.email].password = r.body.password

\* The user_id the session store holds under a token (0: none).
UserIDOf(token) ==
    IF token \in DOMAIN sessions THEN GetInt(sessions[token], "user_id") ELSE 0

\* C1: a request dispatched to a protected route reaches the protected handler
\* only if the session loaded for it holds a non-zero user_id and Find of that
\* id succeeds; in every other case it is answered 401 "not authenticated" and
\* the protected handler is not executed. (Checked with store calls that may
\* fail.)
C1_AuthGate ==
    \A s \in Slots :
        Http(s) /\ Protected(reqs[s]) =>
            LET r == reqs[s]
                id == GetInt(Load(World, r.cookie), "user_id")
                ok == id # 0 /\ Find(World, id, r.storeFault).err = NoErr
            IN /\ r.entered => ok
               /\ ~ok => ~r.entered /\ Unauthorized(r, errNotAuthenticated)

\* A protected request whose session names a user, refused because Find failed.
C1_Witness ==
    \E s \in Slots :
        /\ Http(s) /\ Protected(reqs[s])
        /\ GetInt(Load(World, reqs[s].cookie), "user_id") # 0
        /\ ~reqs[s].entered
        /\ Unauthorized(reqs[s], errNotAuthenticated)

C3_Login ==
    \A s \in Slots :
        Http(s) /\ Routed(reqs[s], PathSession) =>
            LET r == reqs[s] IN
            IF ~r.body.ok THEN Code(r) = StatusBadRequest
            ELSE IF GoodCredentials(r)
            THEN /\ Code(r) = StatusOK
                 /\ UserIDOf(r.setCookie) = created[r.body.email].ID
                 /\ created[r.body.email].ID # 0
            ELSE /\ Code(r) = StatusUnauthorized
                 /\ r.setCookie = NoToken
                 /\ r.sd = Load(World, r.cookie)

\* A login with a registered email and a near-miss password, refused.
C3_Witness ==
    \E s \in Slots :
        /\ Http(s) /\ Routed(reqs[s], PathSession)
        /\ reqs[s].body.ok
        /\ reqs[s].body.email \in DOMAIN created
        /\ created[reqs[s].body.email].password = PwA
        /\ reqs[s].body.password = PwNear
        /\ Code(reqs[s]) = StatusUnauthorized

\* Why a login with a decodable body fails: "miss" (no stored user has the
\* email), "mismatch" (one has, the password is wrong), or "" (it does not).
Cause(body) ==
    IF ~body.ok THEN ""
    ELSE IF body.email \notin DOMAIN created THEN "miss"
    ELSE IF created[body.email].password # body.password THEN "mismatch"
    ELSE ""

\* What a client sees of r, and what r did to its session.
Observable(r) ==
    [wh |-> r.wh, out |-> r.out, setCookie |-> r.setCookie, headers |-> r.headers,
     sd |-> r.sd, written |-> r.written]

\* C4: two logins that differ only in the cause of failure (unknown email;
\* known email with a wrong password) get identical responses (401, same body,
\* same headers) and have identical session effects (none).
C4_NoEnumeration ==
    \A s \in Slots :
        Http(s) /\ Routed(reqs[s], PathSession) /\ Cause(reqs[s].body) # "" =>
            LET r == reqs[s] IN
            /\ Unauthorized(r, errIncorrectEmailOrPassword)
            /\ r.sd = Load(World, r.cookie)
            /\ \A e \in Emails, p \in Passwords :
                  LET b == JsonBody(e, p) IN
                  Cause(b) # "" /\ Cause(b) # Cause(r.body) =>
                      LET twin == Run(World, [NewRequest(World, r.method, r.path, r.cookie,
                                                         b, r.salt, r.storeFault,
                                                         r.renewFault)
                                                  EXCEPT !.salt = r.salt])
                      IN /\ Observable(twin.r) = Observable(r)
                         /\ twin.w = World

\* A login refused for a wrong password while another email is not registered.
C4_Witness ==
    \E s \in Slots :
        /\ Http(s) /\ Routed(reqs[s], PathSession)
        /\ Cause(reqs[s].body) = "mismatch"
        /\ \E e \in Emails : IsEmail(e) /\ e \notin DOMAIN created
        /\ Code(reqs[s]) = StatusUnauthorized

\* A login that arrived with the cookie of a stored session.
Rotating(r) ==
    /\ r.kind = "http" /\ Routed(r, PathSession)
    /\ r.pc \in {"session:renew", "session:put", "done"}
    /\ r.loaded # NoToken

\* Request r carried its cookie through LoadAndSave's Load.
Loaded(r) == r.kind = "http" /\ r.method # "OPTIONS" /\ r.pc \notin {"idle", "recv"}

\* C5: a successful login rotates the session token: once the login request is
\* done, the token it arrived with resolves to no session, and a freshly minted,
\* different token carries the session's attributes with the new user_id; and
\* no request observes a state in between, in which neither token resolves to
\* the session (a request carrying the old token, loaded before the login is
\* done, still finds the session).
C5_Rotation ==
    \A s \in Slots :
        LET r == reqs[s] IN
        r.pc # "idle" /\ Rotating(r) =>
            /\ r.pc = "done" /\ Code(r) = StatusOK =>
                  /\ r.loaded \notin DOMAIN sessions
                  /\ r.setCookie \notin {NoToken, r.loaded}
                  /\ r.setCookie \in DOMAIN sessions => UserIDOf(r.setCookie) = r.u.ID
            /\ r.pc # "done" =>
                  \A o \in Slots \ {s} :
                      reqs[o].pc # "idle" /\ Loaded(reqs[o]) /\ reqs[o].cookie = r.loaded
                          => reqs[o].loaded = r.loaded

\* The same claim where requests are served one at a time: there it holds.
C5_RotationSequential ==
    \A s \in Slots :
        LET r == reqs[s] IN
        r.pc # "idle" /\ Rotating(r) /\ r.pc = "done" /\ Code(r) = StatusOK =>
            /\ r.loaded \notin DOMAIN sessions
            /\ r.setCookie \notin {NoToken, r.loaded}
            /\ r.setCookie \in DOMAIN sessions
            /\ UserIDOf(r.setCookie) = r.u.ID
            /\ sessions[r.setCookie].values =
                   PutValue(Load(World, r.setCookie).values, "user_id", r.u.ID)

\* The emails of the stored users, with multiplicity.
StoredWith(w, email) == {u \in StoredUsers(w) : u.Email = email}

UniqueEmails(w) ==
    \A u1, u2 \in StoredUsers(w) : u1.Email = u2.Email => u1 = u2

\* In this step the exchange in slot s runs to its end and calls Create on the way.
CreateCalled(s) ==
    /\ InFlight(s)
    /\ reqs'[s].pc = "done"
    /\ Len(reqs'[s].calls) > Len(reqs[s].calls)
    /\ reqs'[s].calls[Len(reqs'[s].calls)].op = "Create"

CreateErr(s) == reqs'[s].calls[Len(reqs'[s].calls)].err

\* C6: for a valid (email, password), a Create (by a direct call or by POST
\* /users) succeeds when no earlier Create of that email has succeeded, and the
\* store then holds exactly one user with that email; when an earlier one has, it
\* fails with the duplicate-key error and the stored users are unchanged; this in
\* either backend, so that no two stored users ever have the same email.
C6_CreateUnique ==
    [][\A s \in Slots :
          CreateCalled(s) /\ Validate(NewUser(reqs[s].body.email, reqs[s].body.password)) =>
              LET email == reqs[s].body.email IN
              /\ IF email \in DOMAIN created
                 THEN /\ CreateErr(s) = ErrDuplicateKey
                      /\ StoredUsers(World)' = StoredUsers(World)
                 ELSE /\ CreateErr(s) = NoErr
                      /\ Cardinality(StoredWith(World, email)') = 1
              /\ UniqueEmails(World)']_vars

\* A second Create of a stored email has been refused.
C6_Witness ==
    \E s \in Slots :
        /\ reqs[s].pc = "done" /\ reqs[s].kind = "Create"
        /\ reqs[s].err = ErrDuplicateKey
        /\ reqs[s].body.email \in DOMAIN created
        /\ Cardinality(StoredWith(World, reqs[s].body.email)) = 1

\* In this step a request to /users is served from start to finish.
UsersServed(s) ==
    /\ InFlight(s) /\ reqs[s].kind = "http" /\ Routed(reqs[s], PathUsers)
    /\ reqs[s].pc = "recv" /\ reqs'[s].pc = "done"

\* C7: POST /users answers 400 exactly when the body cannot be decoded, and then
\* without a call of Create; 422 when the decoded user fails validation or its
\* email is already stored; 201 exactly when Create succeeded, with the created
\* user as the body; and a request answered 400 or 422 leaves the stored users
\* as they were.
C7_UsersCreate ==
    [][\A s \in Slots :
          UsersServed(s) =>
              LET r == reqs[s]
                  done == reqs'[s]
                  u == NewUser(r.body.email, r.body.password)
                  code == Code(done)
              IN /\ code \in {StatusBadRequest, StatusUnprocessableEntity, StatusCreated}
                 /\ code = StatusBadRequest <=> ~r.body.ok
                 /\ code = StatusBadRequest => done.calls = <<>>
                 /\ r.body.ok /\ (~Validate(u) \/ r.body.email \in DOMAIN created)
                        => code = StatusUnprocessableEntity
                 /\ code = StatusCreated <=>
                        /\ Len(done.calls) = 1
                        /\ done.calls[1].op = "Create"
                        /\ done.calls[1].err = NoErr
                 /\ code = StatusCreated =>
                        /\ Len(done.out) = 1
                        /\ done.out[1].kind = "user"
                        /\ done.out[1].user.email = r.body.email
                        /\ done.out[1].user.id = done.calls[1].id
                        /\ \E k \in StoredUsers(World)' :
                               k.ID = done.calls[1].id /\ k.Email = r.body.email
                 /\ code \in {StatusBadRequest, StatusUnprocessableEntity}
                        => StoredUsers(World)' = StoredUsers(World)]_vars

\* POST /users has been refused for an email that is already stored.
C7_Witness ==
    \E s \in Slots :
        LET r == reqs[s] IN
        /\ r.pc = "done" /\ r.kind = "http" /\ Routed(r, PathUsers)
        /\ Code(r) = StatusUnprocessableEntity
        /\ Validate(NewUser(r.body.email, r.body.password))
        /\ r.body.email \in DOMAIN created
        /\ r.calls[1].err = ErrDuplicateKey

C9_NotFound ==
    \A s \in Slots :
        LET r == reqs[s] IN
        r.pc = "done" /\ r.kind \in {"Find", "FindByEmail"} =>
            LET match == IF r.kind = "Find"
                         THEN {u \in StoredUsers(World) : u.ID = r.id}
                         ELSE {u \in StoredUsers(World) : u.Email = r.body.email}
            IN /\ r.err = ErrRecordNotFound <=> match = {}
               /\ r.err = ErrRecordNotFound => r.u = NoUser
               /\ r.err # ErrRecordNotFound => r.err = NoErr /\ r.u \in match

\* A lookup has missed in a store that is not empty.
C9_Witness ==
    \E s \in Slots :
        /\ reqs[s].pc = "done" /\ reqs[s].kind \in {"Find", "FindByEmail"}
        /\ reqs[s].err = ErrRecordNotFound
        /\ reqs[s].u = NoUser
        /\ StoredUsers(World) # {}

\* Every user a Create has stored is found under its ID and under its email.
Resolves ==
    \A e \in DOMAIN created :
        LET id == created[e].ID
            byID == Find(World, id, FALSE)
            byEmail == FindByEmail(World, e, FALSE)
        IN /\ id # 0
           /\ byID.err = NoErr /\ byID.u.ID = id /\ byID.u.Email = e
           /\ byEmail.err = NoErr /\ byEmail.u.ID = id /\ byEmail.u.Email = e
           /\ \A e2 \in DOMAIN created : created[e2].ID = id => e2 = e

\* C10: a successful Create hands back the user with its ID set by the store;
\* from then on, whatever else happens, Find of that ID and FindByEmail of that
\* email succeed and return a user with that ID and that email; and the ID of a
\* created user never changes and is never given to another user.
C10_StableID ==
    [][/\ \A s \in Slots :
              CreateCalled(s) /\ CreateErr(s) = NoErr =>
                  /\ reqs'[s].calls[Len(reqs'[s].calls)].id # 0
                  /\ reqs'[s].u.ID = reqs'[s].calls[Len(reqs'[s].calls)].id
       /\ \A e \in DOMAIN created :
              e \in DOMAIN created' /\ created'[e].ID = created[e].ID
       /\ Resolves']_vars

\* Two users have been created and a later Find of the first one's ID succeeds.
C10_Witness ==
    \E s \in Slots, e1, e2 \in DOMAIN created :
        /\ e1 # e2
        /\ reqs[s].pc = "done" /\ reqs[s].kind = "Find"
        /\ reqs[s].id = created[e1].ID
        /\ reqs[s].err = NoErr /\ reqs[s].u.Email = e1

\* The store call of finished request r failed for a reason of the backend.
StoreFailed(r) == \E i \in DOMAIN r.calls : r.calls[i].err = ErrStorage

\* C11: a request to /users or /session whose store call failed with a backend
\* error (not validation, duplicate key or record-not-found) is answered 500,
\* not 422 and not 401.
C11_StorageError500 ==
    \A s \in Slots :
        LET r == reqs[s] IN
        /\ r.pc = "done" /\ r.kind = "http"
        /\ Routed(r, PathUsers) \/ Routed(r, PathSession)
        /\ StoreFailed(r)
        => Code(r) = StatusInternalServerError

\* The errors the handlers have classified: malformed request, validation
\* failure (a duplicate email among them), unauthorized.
Classified ==
    {ErrDecode, ErrValidation, ErrDuplicateKey, errIncorrectEmailOrPassword,
     errNotAuthenticated}

\* C12: the error message in a response body is always the message of a
\* classified error; the text of an internal error, such as the raw error of the
\* backend that a store call returned, is never written to the client.
C12_NoInternalText ==
    \A s \in Slots :
        LET r == reqs[s] IN
        r.pc # "idle" /\ r.kind = "http" =>
            \A i \in DOMAIN r.out :
                r.out[i].kind = "error" => r.out[i].error \in Classified

\* The request in slot s is a POST /users that has been answered 201.
UserCreated(s) ==
    /\ reqs[s].pc = "done" /\ reqs[s].kind = "http" /\ Routed(reqs[s], PathUsers)
    /\ Code(reqs[s]) = StatusCreated

\* C13: however concurrent requests interleave, of the POST /users requests that
\* carry the same valid email at most one succeeds, no two successful ones get
\* the same ID, and the store never holds two users with one email: Create
\* enforces uniqueness atomically.
C13_AtomicCreate ==
    /\ UniqueEmails(World)
    /\ \A s1, s2 \in Slots :
           s1 # s2 /\ UserCreated(s1) /\ UserCreated(s2) =>
               /\ reqs[s1].body.email # reqs[s2].body.email
               /\ reqs[s1].u.ID # reqs[s2].u.ID

\* The call in slot s has been made on both stores.
AskedBoth(s, kinds) == reqs[s].pc = "done" /\ reqs[s].kind \in kinds

\* C14 as stated: whatever sequence of Create, FindByEmail and Find calls is
\* applied to both stores from the empty state, each call has the same outcome
\* (success, validation error, duplicate key, record not found) in both.
C14_Equivalent ==
    \A s \in Slots :
        AskedBoth(s, {"Create", "FindByEmail", "Find", "FindOf"}) =>
            reqs[s].sql.err = reqs[s].mem.err

\* C14, amended: each Create, each FindByEmail, and each Find of a user by the
\* ID that the store itself gave that user (0 when it holds no such user) has
\* the same outcome in both stores, and a lookup that succeeds returns the
\* user with the same email in both.
C14_EquivalentByUser ==
    \A s \in Slots :
        AskedBoth(s, {"Create", "FindByEmail", "FindOf"}) =>
            /\ reqs[s].sql.err = reqs[s].mem.err
            /\ reqs[s].kind # "Create" /\ reqs[s].sql.err = NoErr
                   => reqs[s].sql.u.Email = reqs[s].mem.u.Email

\* Both stores have found the same user, each under an ID of its own.
C14_Witness ==
    \E s \in Slots :
        /\ AskedBoth(s, {"FindOf"})
        /\ reqs[s].sql.err = NoErr /\ reqs[s].mem.err = NoErr
        /\ reqs[s].sql.u.ID # reqs[s].mem.u.ID

\* In this step the request in slot s, to this path, is served from start to finish.
Served(s, path) ==
    /\ reqs[s].pc = "recv" /\ reqs[s].kind = "http" /\ Routed(reqs[s], path)
    /\ reqs'[s].pc = "done"

\* C15: a session lives 24 hours from its last renewal. A successful login stores
\* the session under its new token with an expiry 24 hours from then, and nothing
\* moves the expiry of a stored token afterwards; a protected request that
\* carries a stored token is accepted while the clock has not passed that expiry
\* and is answered 401 once it has.
C15_Lifetime ==
    [][/\ \A s \in Slots :
              Served(s, PathSession) /\ Code(reqs'[s]) = StatusOK =>
                  /\ reqs'[s].setCookie \in DOMAIN sessions'
                  /\ sessions'[reqs'[s].setCookie].deadline = now + Lifetime
       /\ \A s \in Slots :
              Served(s, PathWhoami) /\ reqs[s].cookie \in DOMAIN sessions =>
                  IF now <= sessions[reqs[s].cookie].deadline
                  THEN Code(reqs'[s]) = StatusOK
                  ELSE Code(reqs'[s]) = StatusUnauthorized
       /\ \A t \in DOMAIN sessions \cap DOMAIN sessions' :
              sessions'[t].deadline = sessions[t].deadline]_vars

\* A token has been refused an hour after its 24 hours: it is still in the store,
\* past its expiry.
C15_Witness ==
    \E s \in Slots :
        LET r == reqs[s] IN
        /\ r.pc = "done" /\ r.kind = "http" /\ Routed(r, PathWhoami)
        /\ r.cookie \in DOMAIN sessions
        /\ now = sessions[r.cookie].deadline + 1
        /\ Code(r) = StatusUnauthorized

\* A token has been accepted exactly 24 hours after the login that issued it.
C15_Accepted ==
    \E s \in Slots :
        LET r == reqs[s] IN
        /\ r.pc = "done" /\ r.kind = "http" /\ Routed(r, PathWhoami)
        /\ r.cookie \in DOMAIN sessions
        /\ now = sessions[r.cookie].deadline
        /\ Code(r) = StatusOK

\* In this step the request in slot s, to a path under /private/, is served from
\* start to finish.
ServedPrivate(s) ==
    /\ reqs[s].pc = "recv" /\ reqs[s].kind = "http" /\ Protected(reqs[s])
    /\ reqs'[s].pc = "done"

\* C16: a protected request whose cookie names no session of the server (a
\* made-up or unknown token) is answered 401 without reaching the handler,
\* gets no cookie and leaves the session store as it was; a session comes into
\* the store only under the token that a login answered 200 has set, so no other
\* token ever passes the auth gate.
C16_ForgedRejected ==
    [][/\ \A s \in Slots :
              ServedPrivate(s) /\ reqs[s].cookie \notin DOMAIN sessions =>
                  /\ Unauthorized(reqs'[s], errNotAuthenticated)
                  /\ ~reqs'[s].entered
                  /\ reqs'[s].setCookie = NoToken
                  /\ sessions' = sessions
       /\ \A s \in Slots :
              ServedPrivate(s) /\ reqs'[s].entered =>
                  /\ reqs[s].cookie \in DOMAIN sessions
                  /\ reqs[s].cookie # ForgedToken
       /\ \A t \in DOMAIN sessions' \ DOMAIN sessions :
              \E s \in Slots :
                  /\ Served(s, PathSession)
                  /\ Code(reqs'[s]) = StatusOK
                  /\ reqs'[s].setCookie = t]_vars

\* A made-up token has been refused while the store holds a session.
C16_Witness ==
    \E s \in Slots :
        LET r == reqs[s] IN
        /\ r.pc = "done" /\ r.kind = "http" /\ Protected(r)
        /\ r.cookie = ForgedToken
        /\ Unauthorized(r, errNotAuthenticated)
        /\ DOMAIN sessions # {}

\* In this step the OPTIONS request in slot s is served from start to finish.
OptionsServed(s) ==
    /\ reqs[s].pc = "recv" /\ reqs[s].kind = "http" /\ reqs[s].method = "OPTIONS"
    /\ reqs'[s].pc = "done"

\* C17: an OPTIONS request, on whatever path and with whatever cookie and body,
\* is answered 204 with the CORS headers and the request id, and nothing behind
\* cors runs: no session is loaded (no Vary header from the session wrapper) or
\* committed, no cookie is set, no handler or store call is made, no body is
\* written; the stored users and the session store are as before.
C17_Options ==
    [][\A s \in Slots :
          OptionsServed(s) =>
              LET done == reqs'[s] IN
              /\ Code(done) = StatusNoContent
              /\ done.wh = <<StatusNoContent>>
              /\ done.headers = CorsHeaders \cup {"X-Request-ID"}
              /\ done.setCookie = NoToken
              /\ done.sd = reqs[s].sd
              /\ done.calls = <<>>
              /\ done.out = <<>>
              /\ ~done.entered
              /\ StoredUsers(World)' = StoredUsers(World)
              /\ sessions' = sessions
              /\ minted' = minted]_vars

\* OPTIONS on /users, with a body that would create a user and the cookie of a
\* stored session, has been answered 204.
C17_Witness ==
    \E s \in Slots :
        LET r == reqs[s] IN
        /\ r.pc = "done" /\ r.kind = "http" /\ r.method = "OPTIONS"
        /\ r.path = PathUsers /\ r.body.ok
        /\ r.cookie \in DOMAIN sessions
        /\ Code(r) = StatusNoContent

\* C18: /sessions is an alias of /session: a POST to /sessions gets the login
\* handler's answer, 400 for an undecodable body, 200 for the credentials of a
\* created user, 401 for any other email or password.
C18_SessionsAlias ==
    \A s \in Slots :
        Http(s) /\ Routed(reqs[s], PathSessions) =>
            LET r == reqs[s] IN
            IF ~r.body.ok THEN Code(r) = StatusBadRequest
            ELSE IF GoodCredentials(r) THEN Code(r) = StatusOK
            ELSE Code(r) = StatusUnauthorized

\* C19: a login answered 400 or 401 leaves the session state as it was: no
\* token is generated, deleted or set, no value of the request's session is
\* written or cleared, and the session store is unchanged, so the session the
\* request came with is authenticated afterwards exactly as before, as the
\* same user.
C19_FailedLoginFrame ==
    [][\A s \in Slots :
          /\ Served(s, PathSession)
          /\ Code(reqs'[s]) \in {StatusBadRequest, StatusUnauthorized}
          => /\ sessions' = sessions
             /\ minted' = minted
             /\ reqs'[s].setCookie = NoToken
             /\ reqs'[s].sd = Load(World, reqs[s].cookie)
             /\ UserIDOf(reqs[s].cookie)' = UserIDOf(reqs[s].cookie)]_vars

\* A login with wrong credentials has been refused on an authenticated session,
\* which is still authenticated.
C19_Witness ==
    \E s \in Slots :
        LET r == reqs[s] IN
        /\ r.pc = "done" /\ r.kind = "http" /\ Routed(r, PathSession)
        /\ Code(r) = StatusUnauthorized
        /\ r.body.ok
        /\ r.cookie \in DOMAIN sessions
        /\ UserIDOf(r.cookie) # 0

\* The login in slot s is finished and RenewToken has failed in it.
RenewFailed(s) ==
    /\ Http(s) /\ Routed(reqs[s], PathSession)
    /\ reqs[s].renewFault # "none"
    /\ Code(reqs[s]) = StatusInternalServerError

\* C20: when RenewToken returns an error the login handler answers 500 and
\* stops: it writes that one status and no other, it does not put user_id into
\* the session, and no session becomes authenticated by the request.
C20_RenewFailure ==
    \A s \in Slots :
        RenewFailed(s) =>
            /\ reqs[s].wh = <<StatusInternalServerError>>
            /\ reqs[s].sd.status = "Unmodified"
            /\ reqs[s].setCookie = NoToken

\* What does hold after a failed RenewToken: the client sees the 500, gets no
\* cookie, and the session store holds no session that the request
\* authenticated.
C20_Observed ==
    \A s \in Slots :
        RenewFailed(s) =>
            /\ reqs[s].setCookie = NoToken
            /\ reqs[s].sd.token \in DOMAIN sessions =>
                   sessions[reqs[s].sd.token].values = Load(World, reqs[s].cookie).values
            /\ Len(reqs[s].out) = 1 /\ reqs[s].out[1].kind = "error"

\* The IDs of the users in the store.
StoredIDs == {u.ID : u \in StoredUsers(World)}

\* The login in slot s has run to its end and executed Put("user_id", ...).
PutUserID(s) ==
    /\ Http(s) /\ Routed(reqs[s], PathSession)
    /\ reqs[s].wh # <<>> /\ reqs[s].wh[Len(reqs[s].wh)] = StatusOK

\* C21: in every reachable state the store holds no user with ID 0; every
\* session of the session store has either no user_id or the non-zero ID of a
\* user that is in the store; and the user_id a login has put into its session
\* is the ID of the user that its FindByEmail call, the last store call it
\* made, returned without error.
C21_SessionUser ==
    /\ 0 \notin StoredIDs
    /\ \A t \in DOMAIN sessions :
           "user_id" \in DOMAIN sessions[t].values =>
               sessions[t].values["user_id"] \in StoredIDs
    /\ \A s \in Slots :
           PutUserID(s) =>
               LET r == reqs[s]
                   c == r.calls[Len(r.calls)]
               IN /\ r.calls # <<>>
                  /\ c.op = "FindByEmail" /\ c.err = NoErr
                  /\ GetInt(r.sd, "user_id") = c.id
                  /\ c.id \in StoredIDs

\* A login has put user_id into its session, the session store holds that
\* session under the token sent to the client, and at least two users are
\* stored, so that the ID is one of several.
C21_Witness ==
    \E s \in Slots :
        /\ PutUserID(s)
        /\ reqs[s].setCookie \in DOMAIN sessions
        /\ UserIDOf(reqs[s].setCookie) = GetInt(reqs[s].sd, "user_id")
        /\ UserIDOf(reqs[s].setCookie) # 0
        /\ Cardinality(StoredIDs) >= 2

====
